---- MODULE Spec2Model ----
(***************************************************************************)
(* A model of the tcping MCP server: the TCP probing utilities             *)
(* (utils/tcp.ts: tcpConnect, tcping), the input validators                *)
(* (utils/validators.ts) and the three tool handlers of the server         *)
(* (index.ts: handleTcping, handleFirewallValidation, handleNetworkScan).  *)
(*                                                                         *)
(* Strings are modelled as sequences of one-character strings, optional    *)
(* values (a field that may be undefined) as sequences of length 0 or 1.   *)
(* A message or report text is a sequence of string pieces.                *)
(***************************************************************************)
EXTENDS Integers, Sequences, FiniteSets, TLC

(***************************************************************************)
(* Optional values: undefined is <<>>, a defined value v is <<v>>.         *)
(***************************************************************************)
None == <<>>

Some(v) == <<v>>

IsSome(o) == Len(o) > 0

(***************************************************************************)
(* Character classes used by the regular expressions of the validators.    *)
(***************************************************************************)
Digit == {"0", "1", "2", "3", "4", "5", "6", "7", "8", "9"}

HexLetter == {"a", "b", "c", "d", "e", "f", "A", "B", "C", "D", "E", "F"}

Letter ==
    {"a", "b", "c", "d", "e", "f", "g", "h", "i", "j", "k", "l", "m",
     "n", "o", "p", "q", "r", "s", "t", "u", "v", "w", "x", "y", "z",
     "A", "B", "C", "D", "E", "F", "G", "H", "I", "J", "K", "L", "M",
     "N", "O", "P", "Q", "R", "S", "T", "U", "V", "W", "X", "Y", "Z"}

Hex == Digit \cup HexLetter

Alnum == Digit \cup Letter

(***************************************************************************)
(* A regular expression is a record; Ends(re, s, P) is the set of          *)
(* positions at which a match of re that starts at a position of P can     *)
(* end.  The validators only ask whether an anchored pattern ^re$ matches  *)
(* (RegExp.test / String.match used as a boolean), which is membership of  *)
(* the whole string in the language of re.                                 *)
(***************************************************************************)
Chr(cs) == [t |-> "chr", cs |-> cs, rs |-> <<>>, lo |-> 0, hi |-> 0, unb |-> FALSE]

Lit(c) == Chr({c})

Cat(rs) == [t |-> "cat", cs |-> {}, rs |-> rs, lo |-> 0, hi |-> 0, unb |-> FALSE]

Alt(rs) == [t |-> "alt", cs |-> {}, rs |-> rs, lo |-> 0, hi |-> 0, unb |-> FALSE]

Rep(r, lo, hi) == [t |-> "rep", cs |-> {}, rs |-> <<r>>, lo |-> lo, hi |-> hi, unb |-> FALSE]

RepMin(r, lo) == [t |-> "rep", cs |-> {}, rs |-> <<r>>, lo |-> lo, hi |-> lo, unb |-> TRUE]

RECURSIVE Ends(_, _, _), CatEnds(_, _, _, _), RepEnds(_, _, _, _)

Ends(re, s, P) ==
    CASE re.t = "chr" -> {p + 1 : p \in {q \in P : q <= Len(s) /\ s[q] \in re.cs}}
      [] re.t = "cat" -> CatEnds(re.rs, 1, s, P)
      [] re.t = "alt" -> UNION {Ends(re.rs[k], s, P) : k \in DOMAIN re.rs}
      [] re.t = "rep" -> RepEnds(re, s, P, 0)

CatEnds(rs, k, s, P) ==
    IF k > Len(rs) \/ P = {} THEN P ELSE CatEnds(rs, k + 1, s, Ends(rs[k], s, P))

RepEnds(re, s, P, k) ==
    LET here == IF k >= re.lo THEN P ELSE {}
        stop == \/ P = {}
                \/ ~re.unb /\ k >= re.hi
                \/ re.unb /\ k >= re.lo + Len(s) + 1
    IN  IF stop THEN here ELSE here \cup RepEnds(re, s, Ends(re.rs[1], s, P), k + 1)

\* /^re$/.test(s)
Test(re, s) == (Len(s) + 1) \in Ends(re, s, {1})

(***************************************************************************)
(* String helpers: split('.') and parseInt(x, 10) on a run of digits.      *)
(***************************************************************************)
RECURSIVE Split(_, _)

\* s.split(sep): the pieces of s between the occurrences of the character sep
Split(s, sep) ==
    IF \A k \in DOMAIN s : s[k] # sep
    THEN <<s>>
    ELSE LET k == CHOOSE j \in DOMAIN s : s[j] = sep /\ \A m \in 1..(j - 1) : s[m] # sep
         IN  <<SubSeq(s, 1, k - 1)>> \o Split(SubSeq(s, k + 1, Len(s)), sep)

DigitVal(c) ==
    CASE c = "0" -> 0 [] c = "1" -> 1 [] c = "2" -> 2 [] c = "3" -> 3 [] c = "4" -> 4
      [] c = "5" -> 5 [] c = "6" -> 6 [] c = "7" -> 7 [] c = "8" -> 8 [] c = "9" -> 9

RECURSIVE ParseInt(_)

ParseInt(ds) ==
    IF ds = <<>> THEN 0 ELSE 10 * ParseInt(SubSeq(ds, 1, Len(ds) - 1)) + DigitVal(ds[Len(ds)])

(***************************************************************************)
(* utils/validators.ts                                                     *)
(***************************************************************************)
\* a host value that is not a string (typeof host !== 'string')
NonString == <<"<non-string>">>

IsString(host) == host # NonString

\* !host || typeof host !== 'string'
HostMissing(host) == host = <<>> \/ ~IsString(host)

D13 == Rep(Chr(Digit), 1, 3)

\* /^(\d{1,3})\.(\d{1,3})\.(\d{1,3})\.(\d{1,3})$/
ipv4Pattern == Cat(<<D13, Lit("."), D13, Lit("."), D13, Lit("."), D13>>)

H4 == Rep(Chr(Hex), 1, 4)

H4Colon == Cat(<<H4, Lit(":")>>)

ColonH4 == Cat(<<Lit(":"), H4>>)

\* (25[0-5]|(2[0-4]|1{0,1}[0-9]){0,1}[0-9])
V4Octet ==
    Alt(<<Cat(<<Lit("2"), Lit("5"), Chr({"0", "1", "2", "3", "4", "5"})>>),
          Cat(<<Rep(Alt(<<Cat(<<Lit("2"), Chr({"0", "1", "2", "3", "4"})>>),
                          Cat(<<Rep(Lit("1"), 0, 1), Chr(Digit)>>)>>), 0, 1),
                Chr(Digit)>>)>>)

\* (V4Octet\.){3,3}V4Octet
V4Tail == Cat(<<Rep(Cat(<<V4Octet, Lit(".")>>), 3, 3), V4Octet>>)

\* the twelve alternatives of ipv6Regex, in source order
ipv6Regex ==
    Alt(<<Cat(<<Rep(H4Colon, 7, 7), H4>>),
          Cat(<<Rep(H4Colon, 1, 7), Lit(":")>>),
          Cat(<<Rep(H4Colon, 1, 6), Lit(":"), H4>>),
          Cat(<<Rep(H4Colon, 1, 5), Rep(ColonH4, 1, 2)>>),
          Cat(<<Rep(H4Colon, 1, 4), Rep(ColonH4, 1, 3)>>),
          Cat(<<Rep(H4Colon, 1, 3), Rep(ColonH4, 1, 4)>>),
          Cat(<<Rep(H4Colon, 1, 2), Rep(ColonH4, 1, 5)>>),
          Cat(<<H4, Lit(":"), Rep(ColonH4, 1, 6)>>),
          Cat(<<Lit(":"), Alt(<<Rep(ColonH4, 1, 7), Lit(":")>>)>>),
          Cat(<<Lit("f"), Lit("e"), Lit("8"), Lit("0"), Lit(":"),
                Rep(Cat(<<Lit(":"), Rep(Chr(Hex), 0, 4)>>), 0, 4),
                Lit("%"), RepMin(Chr(Alnum), 1)>>),
          Cat(<<Lit(":"), Lit(":"),
                Rep(Cat(<<Lit("f"), Lit("f"), Lit("f"), Lit("f"),
                          Rep(Cat(<<Lit(":"), Rep(Lit("0"), 1, 4)>>), 0, 1),
                          Lit(":")>>), 0, 1),
                V4Tail>>),
          Cat(<<Rep(H4Colon, 1, 4), Lit(":"), V4Tail>>)>>)

\* /^(\d{1,3}\.){0,3}\d{1,3}$/
incompleteIpv4 == Cat(<<Rep(Cat(<<D13, Lit(".")>>), 0, 3), D13>>)

\* /^(\d{1,3}\.){4,}\d{1,3}$/
tooManyOctets == Cat(<<RepMin(Cat(<<D13, Lit(".")>>), 4), D13>>)

\* ([a-zA-Z0-9]|[a-zA-Z0-9][a-zA-Z0-9\-]*[a-zA-Z0-9])
Label ==
    Alt(<<Chr(Alnum),
          Cat(<<Chr(Alnum), RepMin(Chr(Alnum \cup {"-"}), 0), Chr(Alnum)>>)>>)

\* as hostnameRegex, with labels that may begin or end with a hyphen
hostnameRegexHyphenEdges ==
    Cat(<<RepMin(Cat(<<RepMin(Chr(Alnum \cup {"-"}), 1), Lit(".")>>), 0),
          RepMin(Chr(Alnum \cup {"-"}), 1)>>)

\* /^(Label\.)*Label$/
hostnameRegex == Cat(<<RepMin(Cat(<<Label, Lit(".")>>), 0), Label>>)

isValidHost(host) ==
    IF HostMissing(host) THEN FALSE
    ELSE IF Test(ipv4Pattern, host)
    THEN LET octets == Split(host, ".")
         IN  IF Len(octets) # 4 THEN FALSE
             ELSE \A k \in 1..4 : ~(ParseInt(octets[k]) < 0 \/ ParseInt(octets[k]) > 255)
    ELSE IF Test(ipv6Regex, host) THEN TRUE
    ELSE IF Test(incompleteIpv4, host) /\ Len(Split(host, ".")) < 4 THEN FALSE
    ELSE IF Test(tooManyOctets, host) THEN FALSE
    ELSE Test(hostnameRegex, host)

MinPort == 1

MaxPort == 65535

\* Number.isInteger(port) && port >= 1 && port <= 65535
\* as isValidPort, with the lower limit one too low
isValidPortFromZero(port) == port \in Int /\ port >= 0 /\ port <= MaxPort

isValidPort(port) == port \in Int /\ port >= MinPort /\ port <= MaxPort

\* as validateConnection, but the port is checked before the host's format
validateConnectionPortFirst(host, port) ==
    IF HostMissing(host)
    THEN [isValid |-> FALSE, error |-> Some(<<"Host must be a non-empty string">>)]
    ELSE IF ~isValidPort(port)
    THEN [isValid |-> FALSE, error |-> Some(<<"Port must be an integer between 1 and 65535">>)]
    ELSE IF ~isValidHost(host)
    THEN [isValid |-> FALSE, error |-> Some(<<"Invalid hostname or IP address format">>)]
    ELSE [isValid |-> TRUE, error |-> None]

validateConnection(host, port) ==
    IF HostMissing(host)
    THEN [isValid |-> FALSE, error |-> Some(<<"Host must be a non-empty string">>)]
    ELSE IF ~isValidHost(host)
    THEN [isValid |-> FALSE, error |-> Some(<<"Invalid hostname or IP address format">>)]
    ELSE IF ~isValidPort(port)
    THEN [isValid |-> FALSE, error |-> Some(<<"Port must be an integer between 1 and 65535">>)]
    ELSE [isValid |-> TRUE, error |-> None]

(***************************************************************************)
(* Bounds of the model and the sampled inputs.                             *)
(***************************************************************************)
\* counts range over -1..MaxCount
MaxCount == 3

\* at most MaxRules firewall rules in one request
MaxRules == 2

\* the ports of a scan are the last MaxScan valid ports and the two that
\* follow MaxPort
MaxScan == 2

\* dotted digit strings have at most MaxGroups groups
MaxGroups == 5

\* host strings over NameChars have at most MaxHostLen characters
MaxHostLen == 4

\* the clock is followed millisecond by millisecond for MaxFine ms after a
\* timer is armed; beyond that it jumps to the next deadline
MaxFine == 1

\* "a.b": a hostname of two labels
ValidHost == <<"a", ".", "b">>

\* "a-.b": a label that ends with a hyphen
BadHost == <<"a", "-", ".", "b">>

Hosts == {ValidHost, BadHost}

Ports == {80, MaxPort + 1}

Counts == -1..MaxCount

\* error.message of the socket's error event
ErrorMessages == {<<"connect ECONNREFUSED">>}

(***************************************************************************)
(* State.                                                                  *)
(*   pc       where the tool invocation is: "idle" (not yet called),       *)
(*            "await" (awaiting tcpConnect), "sleep" (awaiting the         *)
(*            interval timer), "done" (the handler returned or threw)      *)
(*   tool     the tool name of the request                                 *)
(*   args     the arguments of the request                                 *)
(*   i        the loop cursor: tcping's i, the position in rules, or the   *)
(*            scanner's port                                               *)
(*   results  the results array of tcping / handleFirewallValidation       *)
(*   openPorts the openPorts array of handleNetworkScan                    *)
(*   probes   one record per tcpConnect call made so far, in call order:   *)
(*            its arguments, socket, timer and promise                     *)
(*   sleep    the interval timer of tcping                                 *)
(*   waits    number of interval timers armed so far                       *)
(*   now      Date.now(), counted from the request                         *)
(*   result   the value tcping returned (None until then)                  *)
(*   thrown   the exception that left the handler (None if none)           *)
(*   output   the report text of handleFirewallValidation /                *)
(*            handleNetworkScan so far: its lines, each a sequence of      *)
(*            string pieces                                                *)
(*   response the result the CallTool request handler returned (None       *)
(*            until then)                                                  *)
(*   parked   a second invocation, not running at the moment: its number   *)
(*            and its local variables.  The variables above are those of   *)
(*            the invocation that is running; the clock is common.         *)
(***************************************************************************)
VARIABLES pc, tool, args, i, results, openPorts, probes, sleep, waits, now, result, thrown, output,
          response, parked

vars == <<pc, tool, args, i, results, openPorts, probes, sleep, waits, now, result, thrown, output,
          response, parked>>

\* the local variables of the invocation that is running
Locals ==
    [pc |-> pc, tool |-> tool, args |-> args, i |-> i, results |-> results,
     openPorts |-> openPorts, probes |-> probes, sleep |-> sleep, waits |-> waits,
     result |-> result, thrown |-> thrown, output |-> output, response |-> response]

DefaultTimeout == 3000

DefaultCount == 4

DefaultInterval == 1000

DefaultScanTimeout == 1000

\* destructuring with a default: const { x = d } = options
OrDefault(o, d) == IF IsSome(o) THEN o[1] ELSE d

(***************************************************************************)
(* tcpConnect (utils/tcp.ts).                                              *)
(***************************************************************************)
\* net.Socket.connect validates the port synchronously and throws
\* ERR_SOCKET_BAD_PORT unless it is an integer in 0..65535
SocketAcceptsPort(port) == port \in 0..MaxPort

BadPortError == <<"ERR_SOCKET_BAD_PORT">>

\* The state of a tcpConnect call when the promise executor has run: the
\* start time is taken, the socket created, the timer armed and the
\* connection initiated.  An exception thrown by socket.connect inside the
\* executor rejects the promise; timer and socket stay as they are.
tcpConnect(host, port, timeout) ==
    [host      |-> host,
     port      |-> port,
     timeout   |-> timeout,
     startTime |-> now,
     socket    |-> IF SocketAcceptsPort(port) THEN "connecting" ELSE "created",
     timer     |-> "armed",
     promise   |-> IF SocketAcceptsPort(port) THEN "pending" ELSE "rejected",
     value     |-> None,
     reason    |-> IF SocketAcceptsPort(port) THEN None ELSE Some(BadPortError)]

\* as Resolve, but a later settlement replaces an earlier one
ResolveLast(p, v) == [p EXCEPT !.promise = "resolved", !.value = Some(v), !.reason = None]

\* resolve(v) of the promise: only the first settlement counts
Resolve(p, v) ==
    IF p.promise = "pending" THEN [p EXCEPT !.promise = "resolved", !.value = Some(v)] ELSE p

\* clearTimeout(timeoutHandler)
ClearTimeout(p) == IF p.timer = "armed" THEN [p EXCEPT !.timer = "cleared"] ELSE p

\* socket.destroy()
Destroy(p) == [p EXCEPT !.socket = "destroyed"]

\* `Connection timeout after ${timeout}ms`
TimeoutMessage(timeout) == <<"Connection timeout after ", ToString(timeout), "ms">>

\* the setTimeout callback
TimeoutHandler(p) ==
    Resolve(Destroy([p EXCEPT !.timer = "fired"]),
            [success |-> FALSE, responseTime |-> None,
             error |-> Some(TimeoutMessage(p.timeout))])

\* the callback of socket.connect
ConnectHandler(p) ==
    Resolve(Destroy(ClearTimeout(p)),
            [success |-> TRUE, responseTime |-> Some(now - p.startTime), error |-> None])

\* as ErrorHandler, but the failed outcome also carries the elapsed time
ErrorHandlerTimed(p, message) ==
    Resolve(Destroy(ClearTimeout(p)),
            [success |-> FALSE, responseTime |-> Some(now - p.startTime),
             error |-> Some(message)])

\* the 'error' listener
ErrorHandler(p, message) ==
    Resolve(Destroy(ClearTimeout(p)),
            [success |-> FALSE, responseTime |-> None, error |-> Some(message)])

\* as Deadline, but the timer runs for twice its delay
DeadlineTwice(p) == p.startTime + 2 * p.timeout

Deadline(p) == p.startTime + p.timeout

\* as OnTimeout, but the timer may fire before its delay has elapsed
OnTimeoutEarly(k) ==
    /\ probes[k].timer = "armed"
    /\ probes' = [probes EXCEPT ![k] = TimeoutHandler(probes[k])]
    /\ UNCHANGED <<pc, tool, args, i, results, openPorts, sleep, waits, now, parked, result, thrown, output,
                   response>>

\* the timer of the k-th call fires
OnTimeout(k) ==
    /\ probes[k].timer = "armed"
    /\ now >= Deadline(probes[k])
    /\ probes' = [probes EXCEPT ![k] = TimeoutHandler(probes[k])]
    /\ UNCHANGED <<pc, tool, args, i, results, openPorts, sleep, waits, now, parked, result, thrown, output,
                   response>>

OnConnect(k) ==
    /\ probes[k].socket = "connecting"
    /\ probes' = [probes EXCEPT ![k] = ConnectHandler(probes[k])]
    /\ UNCHANGED <<pc, tool, args, i, results, openPorts, sleep, waits, now, parked, result, thrown, output,
                   response>>

OnError(k) ==
    /\ probes[k].socket = "connecting"
    /\ \E message \in ErrorMessages :
           probes' = [probes EXCEPT ![k] = ErrorHandler(probes[k], message)]
    /\ UNCHANGED <<pc, tool, args, i, results, openPorts, sleep, waits, now, parked, result, thrown, output,
                   response>>

(***************************************************************************)
(* tcping (utils/tcp.ts).                                                  *)
(***************************************************************************)
RECURSIVE Sum(_)

\* responseTimes.reduce((a, b) => a + b)
Sum(s) == IF s = <<>> THEN 0 ELSE Head(s) + Sum(Tail(s))

\* Math.round(a / b) for b > 0: the nearest integer, halves rounded up
RoundDiv(a, b) == (2 * a + b) \div (2 * b)

Min(s) == CHOOSE x \in {s[k] : k \in DOMAIN s} : \A k \in DOMAIN s : x <= s[k]

Max(s) == CHOOSE x \in {s[k] : k \in DOMAIN s} : \A k \in DOMAIN s : x >= s[k]

\* results.filter(r => r.success)
Successful(rs) == SelectSeq(rs, LAMBDA r : r.success)

\* r.responseTime as a condition: undefined and 0 are falsy
Truthy(o) == IsSome(o) /\ o[1] # 0

RECURSIVE Map1(_)

\* as ResponseTimes, but the filter keeps every attempt that has a response
\* time, a time of 0 included
ResponseTimesDefined(rs) == Map1(SelectSeq(rs, LAMBDA r : IsSome(r.responseTime)))

\* results.filter(r => r.responseTime).map(r => r.responseTime!)
Map1(rs) == IF rs = <<>> THEN <<>> ELSE <<Head(rs).responseTime[1]>> \o Map1(Tail(rs))

ResponseTimes(rs) == Map1(SelectSeq(rs, LAMBDA r : Truthy(r.responseTime)))

\* as TcpingResult, but the mean is taken over all attempts
TcpingResultMeanOverAttempts(host, port, count, rs) ==
    LET successfulAttempts == Len(Successful(rs))
        responseTimes == ResponseTimes(rs)
    IN  [host               |-> host,
         port               |-> port,
         success            |-> successfulAttempts > 0,
         attempts           |-> count,
         successfulAttempts |-> successfulAttempts,
         averageTime        |-> IF Len(responseTimes) > 0
                                THEN Some(RoundDiv(Sum(responseTimes), Len(rs)))
                                ELSE None,
         minTime            |-> IF Len(responseTimes) > 0 THEN Some(Min(responseTimes)) ELSE None,
         maxTime            |-> IF Len(responseTimes) > 0 THEN Some(Max(responseTimes)) ELSE None,
         results            |-> rs]

\* as TcpingResult, but success is reported from the collected response times
TcpingResultSuccessFromTimes(host, port, count, rs) ==
    LET successfulAttempts == Len(Successful(rs))
        responseTimes == ResponseTimes(rs)
    IN  [host               |-> host,
         port               |-> port,
         success            |-> Len(responseTimes) > 0,
         attempts           |-> count,
         successfulAttempts |-> successfulAttempts,
         averageTime        |-> IF Len(responseTimes) > 0
                                THEN Some(RoundDiv(Sum(responseTimes), Len(responseTimes)))
                                ELSE None,
         minTime            |-> IF Len(responseTimes) > 0 THEN Some(Min(responseTimes)) ELSE None,
         maxTime            |-> IF Len(responseTimes) > 0 THEN Some(Max(responseTimes)) ELSE None,
         results            |-> rs]

\* the object tcping returns after its loop
TcpingResult(host, port, count, rs) ==
    LET successfulAttempts == Len(Successful(rs))
        responseTimes == ResponseTimes(rs)
    IN  [host               |-> host,
         port               |-> port,
         success            |-> successfulAttempts > 0,
         attempts           |-> count,
         successfulAttempts |-> successfulAttempts,
         averageTime        |-> IF Len(responseTimes) > 0
                                THEN Some(RoundDiv(Sum(responseTimes), Len(responseTimes)))
                                ELSE None,
         minTime            |-> IF Len(responseTimes) > 0 THEN Some(Min(responseTimes)) ELSE None,
         maxTime            |-> IF Len(responseTimes) > 0 THEN Some(Max(responseTimes)) ELSE None,
         results            |-> rs]

\* const { host, port, timeout = 3000, count = 4, interval = 1000 } = options
TcpingTimeout == OrDefault(args.timeout, DefaultTimeout)

TcpingCount == OrDefault(args.count, DefaultCount)

TcpingInterval == OrDefault(args.interval, DefaultInterval)

TcpingOptions ==
    [host : Hosts, port : Ports, timeout : {Some(2)}, count : {Some(c) : c \in Counts},
     interval : {Some(0), Some(1)}]
    \cup {[host |-> ValidHost, port |-> 80, timeout |-> None, count |-> None, interval |-> None]}

\* the last tcpConnect call, the one the handler awaits
Last == probes[Len(probes)]

\* await: the continuation runs once the awaited promise is settled
Settled(p) == p.promise # "pending"

\* as TcpingLoop, but the loop test is `i <= count`
TcpingLoopOffByOne(options, j, rs) ==
    LET timeout == OrDefault(options.timeout, DefaultTimeout)
        count == OrDefault(options.count, DefaultCount)
    IN  /\ i' = j
        /\ IF j <= count
           THEN /\ probes' = Append(probes, tcpConnect(options.host, options.port, timeout))
                /\ pc' = "await"
                /\ result' = result
           ELSE /\ probes' = probes
                /\ pc' = "done"
                /\ result' = Some(TcpingResult(options.host, options.port, count, rs))

\* as TcpingLoop, but the next attempt is started along with this one
\* instead of after it
TcpingLoopFanOut(options, j, rs) ==
    LET timeout == OrDefault(options.timeout, DefaultTimeout)
        count == OrDefault(options.count, DefaultCount)
        probe == tcpConnect(options.host, options.port, timeout)
    IN  /\ i' = j
        /\ IF j < count
           THEN /\ probes' = probes \o (IF j + 1 < count THEN <<probe, probe>> ELSE <<probe>>)
                /\ pc' = "await"
                /\ result' = result
           ELSE /\ probes' = probes
                /\ pc' = "done"
                /\ result' = Some(TcpingResult(options.host, options.port, count, rs))

\* the loop test `i < count` with i = j: the next tcpConnect call, or the
\* statements after the loop down to the return
TcpingLoop(options, j, rs) ==
    LET timeout == OrDefault(options.timeout, DefaultTimeout)
        count == OrDefault(options.count, DefaultCount)
    IN  /\ i' = j
        /\ IF j < count
           THEN /\ probes' = Append(probes, tcpConnect(options.host, options.port, timeout))
                /\ pc' = "await"
                /\ result' = result
           ELSE /\ probes' = probes
                /\ pc' = "done"
                /\ result' = Some(TcpingResult(options.host, options.port, count, rs))

(***************************************************************************)
(* The CallTool request handler (index.ts): try { switch (name) ... return  *)
(* await handler } catch (error) { return the error as a text }.            *)
(***************************************************************************)
\* the value a handler returns: its report
TextResult(out) == [isError |-> FALSE, text |-> out]

\* the value made in the catch clause: `Error: ${error.message}`
ErrorResult(message) == [isError |-> TRUE, text |-> << <<"Error: ">> \o message >>]

\* as CallToolResult, but without the catch clause: what was thrown leaves
\* the request handler and no result is returned
CallToolResultNoCatch(p, th, out) ==
    IF p = "done" /\ ~IsSome(th) THEN Some(TextResult(out)) ELSE None

\* what the request handler has returned when the tool's handler is at p
\* with th thrown and the report out: nothing while the handler is
\* awaited, then its value, or the error result if it threw
CallToolResult(p, th, out) ==
    IF p # "done" THEN None
    ELSE IF IsSome(th) THEN Some(ErrorResult(th[1]))
    ELSE Some(TextResult(out))

\* the request handler around a step of the tool's handler
CallTool == response' = CallToolResult(pc', thrown', output')

\* tool names the switch does not know
UnknownNames == {"ping"}

\* default: throw new Error(`Unknown tool: ${name}`)
CallUnknown(name) ==
    /\ pc = "idle"
    /\ tool' = name
    /\ args' = <<>>
    /\ thrown' = Some(<<"Unknown tool: ", name>>)
    /\ pc' = "done"
    /\ UNCHANGED <<i, results, openPorts, probes, sleep, waits, now, parked, result, output>>
    /\ CallTool

(***************************************************************************)
(* handleTcping (index.ts): the report made of the object tcping returned.  *)
(***************************************************************************)
RECURSIVE AttemptLines(_, _)

\* the forEach over result.results: the line of each attempt from the
\* index-th one on
AttemptLines(rs, index) ==
    IF index > Len(rs) THEN <<>>
    ELSE << IF rs[index].success
            THEN <<"  Attempt ", ToString(index), ": Connected - ",
                   ToString(rs[index].responseTime[1]), "ms">>
            ELSE <<"  Attempt ", ToString(index), ": Failed - ">> \o rs[index].error[1] >>
         \o AttemptLines(rs, index + 1)

\* ${Math.round(successfulAttempts / attempts * 100)}: 0/0 is NaN, n/0 is
\* Infinity, and a zero of either sign prints as 0
SuccessRate(successfulAttempts, attempts) ==
    IF attempts = 0
    THEN (IF successfulAttempts = 0 THEN "NaN" ELSE "Infinity")
    ELSE IF successfulAttempts = 0 THEN "0"
    ELSE ToString(RoundDiv(100 * successfulAttempts, attempts))

\* the text handleTcping builds from the result r of tcping, as its lines
TcpingReport(r) ==
    << <<"TCPING ">> \o r.host \o <<":", ToString(r.port)>>,
       <<>>,
       <<"Results:">> >>
    \o AttemptLines(r.results, 1)
    \o << <<>>,
          <<"Summary:">>,
          <<"  Success Rate: ", ToString(r.successfulAttempts), "/", ToString(r.attempts),
            " (", SuccessRate(r.successfulAttempts, r.attempts), "%)">> >>
    \o (IF Truthy(r.averageTime)
        THEN << <<"  Response Times: min=", ToString(r.minTime[1]), "ms, avg=",
                  ToString(r.averageTime[1]), "ms, max=", ToString(r.maxTime[1]), "ms">> >>
        ELSE <<>>)

\* the continuation of `await tcping(options)` in handleTcping: once tcping
\* has returned, the report is built; a rejection is passed on
HandleTcping ==
    output' = IF IsSome(result') THEN TcpingReport(result'[1]) ELSE output

\* tcping is called: the code up to the first await
CallTcping(options) ==
    /\ pc = "idle"
    /\ tool' = "tcping"
    /\ args' = options
    /\ TcpingLoop(options, 0, <<>>)
    /\ HandleTcping
    /\ UNCHANGED <<results, openPorts, sleep, waits, now, parked, thrown>>
    /\ CallTool

\* as WaitBeforeNext, but the interval is also awaited after the last attempt
WaitAfterEvery(j, count) == j < count

\* if (i < count - 1): the interval is awaited unless attempt i is the last
WaitBeforeNext(j, count) == j < count - 1

\* the continuation of `await tcpConnect(...)` in tcping, up to the next await
ResumeTcping ==
    /\ pc = "await"
    /\ tool = "tcping"
    /\ Settled(Last)
    /\ IF Last.promise = "rejected"
       THEN /\ thrown' = Last.reason
            /\ pc' = "done"
            /\ UNCHANGED <<i, results, probes, sleep, waits, result>>
       ELSE /\ results' = Append(results, Last.value[1])
            /\ thrown' = thrown
            /\ IF WaitBeforeNext(i, TcpingCount)
               THEN /\ sleep' = [armed |-> TRUE, start |-> now, delay |-> TcpingInterval]
                    /\ waits' = waits + 1
                    /\ pc' = "sleep"
                    /\ UNCHANGED <<i, probes, result>>
               ELSE /\ TcpingLoop(args, i + 1, results')
                    /\ UNCHANGED <<sleep, waits>>
    /\ HandleTcping
    /\ UNCHANGED <<tool, args, openPorts, now, parked>>
    /\ CallTool

\* the interval timer fires: i++, the loop test, the next tcpConnect
SleepDone ==
    /\ pc = "sleep"
    /\ sleep.armed
    /\ now >= sleep.start + sleep.delay
    /\ sleep' = [sleep EXCEPT !.armed = FALSE]
    /\ TcpingLoop(args, i + 1, results)
    /\ HandleTcping
    /\ UNCHANGED <<tool, args, results, openPorts, waits, now, parked, thrown>>
    /\ CallTool

(***************************************************************************)
(* The original handleTcping (src/index.ts), which holds the loop, the     *)
(* statistics and the report in one method.                                *)
(***************************************************************************)
\* the text the original handleTcping builds from its results array rs
MonolithicReport(host, port, count, rs) ==
    LET successfulAttempts == Len(Successful(rs))
        responseTimes == ResponseTimes(rs)
    IN  << <<"TCPING ">> \o host \o <<":", ToString(port)>>,
           <<>>,
           <<"Results:">> >>
        \o AttemptLines(rs, 1)
        \o << <<>>,
              <<"Summary:">>,
              <<"  Success Rate: ", ToString(successfulAttempts), "/", ToString(count),
                " (", SuccessRate(successfulAttempts, count), "%)">> >>
        \o (IF Len(responseTimes) > 0
            THEN << <<"  Response Times: min=", ToString(Min(responseTimes)), "ms, avg=",
                      ToString(RoundDiv(Sum(responseTimes), Len(responseTimes))),
                      "ms, max=", ToString(Max(responseTimes)), "ms">> >>
            ELSE <<>>)

\* Where the original handleTcping is after its tcpConnect calls delivered
\* the outcomes rs, `slept` of its interval timers fired and, if caught, the
\* rejection of its last call reached it: its position, the number of
\* tcpConnect calls and of interval timers so far, the arguments of the
\* calls, the delay of the timers, and what it threw or returned.
MonolithicHandleTcping(options, rs, slept, caught) ==
    LET timeout == OrDefault(options.timeout, DefaultTimeout)
        count == OrDefault(options.count, DefaultCount)
        interval == OrDefault(options.interval, DefaultInterval)
        n == Len(rs)
        timers == Cardinality({k \in 1..n : k - 1 < count - 1})
        at == IF slept < timers THEN "sleep"
              ELSE IF n < count THEN (IF caught THEN "done" ELSE "await")
              ELSE "done"
    IN  [pc     |-> at,
         calls  |-> IF at = "sleep" \/ ~(n < count) THEN n ELSE n + 1,
         target |-> [host |-> options.host, port |-> options.port, timeout |-> timeout],
         waits  |-> timers,
         delay  |-> interval,
         thrown |-> IF at = "done" /\ n < count THEN Some(BadPortError) ELSE None,
         output |-> IF at = "done" /\ ~(n < count)
                    THEN MonolithicReport(options.host, options.port, count, rs)
                    ELSE <<>>]

(***************************************************************************)
(* handleFirewallValidation (index.ts).                                    *)
(***************************************************************************)
Rules ==
    {[name |-> "web", host |-> ValidHost, port |-> 80, expected |-> TRUE],
     [name |-> "ssh", host |-> ValidHost, port |-> 80, expected |-> FALSE],
     [name |-> "bad host", host |-> BadHost, port |-> 80, expected |-> FALSE],
     [name |-> "bad port", host |-> ValidHost, port |-> MaxPort + 1, expected |-> FALSE]}

RECURSIVE SeqsUpTo(_, _)

\* the sequences over S of length at most n
SeqsUpTo(S, n) ==
    IF n = 0 THEN {<<>>}
    ELSE LET shorter == SeqsUpTo(S, n - 1)
         IN  shorter \cup {Append(s, x) : s \in shorter, x \in S}

\* stands for the value of `rules` when the arguments have no such property
Undefined == <<[name |-> "<undefined>", host |-> <<>>, port |-> 0, expected |-> FALSE]>>

Iterable(rules) == rules # Undefined

\* the TypeError of `for (const rule of rules)` with rules undefined
NotIterableError == <<"rules is not iterable">>

\* the sampled arguments, among them one without rules
FirewallArgs ==
    [rules : SeqsUpTo(Rules, MaxRules), timeout : {Some(2), None}]
    \cup [rules : {Undefined}, timeout : {None}]

\* a string concatenated n times, as its pieces
Repeat(s, n) == [k \in 1..n |-> s]

\* truthiness of an optional string: present and not empty
TruthyText(o) == IsSome(o) /\ o[1] # <<>>

\* the two header lines and the empty line that open the report
FirewallHeader ==
    << <<"Firewall Rule Validation Results:">>, Repeat("=", 50), <<>> >>

\* the status marker; the emoji that precedes the word is written by its
\* code point
Status(passed) == IF passed THEN "U+2705 PASS" ELSE "U+274C FAIL"

\* the lines appended to output for a rule and the outcome of its probe
RuleBlock(rule, r) ==
    << <<"Rule: ", rule.name>>,
       <<"  Target: ">> \o rule.host \o <<":", ToString(rule.port)>>,
       <<"  Expected: ", IF rule.expected THEN "CONNECTED" ELSE "BLOCKED">>,
       <<"  Actual: ", IF r.success THEN "CONNECTED" ELSE "BLOCKED/FAILED">>,
       <<"  Status: ", Status(r.success = rule.expected)>> >>
    \o (IF r.success /\ Truthy(r.responseTime)
        THEN << <<"  Response Time: ", ToString(r.responseTime[1]), "ms">> >>
        ELSE IF ~r.success /\ TruthyText(r.error)
             THEN << <<"  Error: ">> \o r.error[1] >>
             ELSE <<>>)
    \o << <<>> >>

\* as RuleResult, but a rule passes when its probe succeeds
RuleResultPassedIsActual(rule, r) ==
    [name         |-> rule.name,
     host         |-> rule.host,
     port         |-> rule.port,
     expected     |-> rule.expected,
     actual       |-> r.success,
     passed       |-> r.success,
     responseTime |-> r.responseTime,
     error        |-> r.error]

\* the entry pushed to results for a rule and the outcome of its probe
RuleResult(rule, r) ==
    [name         |-> rule.name,
     host         |-> rule.host,
     port         |-> rule.port,
     expected     |-> rule.expected,
     actual       |-> r.success,
     passed       |-> r.success = rule.expected,
     responseTime |-> r.responseTime,
     error        |-> r.error]

\* the summary line that closes the report
OverallResult(rs) ==
    <<"Overall Result: ", ToString(Len(SelectSeq(rs, LAMBDA r : r.passed))), "/",
      ToString(Len(rs)), " rules passed">>

\* `for (const rule of rules)` at position j, with results rs and output
\* out: the tcpConnect call for the j-th rule, or the statements after the
\* loop
FirewallLoop(a, j, rs, out) ==
    /\ i' = j
    /\ IF j <= Len(a.rules)
       THEN /\ probes' = Append(probes, tcpConnect(a.rules[j].host, a.rules[j].port,
                                                   OrDefault(a.timeout, DefaultTimeout)))
            /\ pc' = "await"
            /\ output' = out
       ELSE /\ probes' = probes
            /\ pc' = "done"
            /\ output' = Append(out, OverallResult(rs))

\* handleFirewallValidation is called: the code up to the first await; the
\* for...of statement throws a TypeError if rules is not iterable
CallFirewall(a) ==
    /\ pc = "idle"
    /\ tool' = "validate_firewall_rule"
    /\ args' = a
    /\ IF Iterable(a.rules)
       THEN /\ FirewallLoop(a, 1, <<>>, FirewallHeader)
            /\ thrown' = thrown
       ELSE /\ thrown' = Some(NotIterableError)
            /\ pc' = "done"
            /\ output' = FirewallHeader
            /\ UNCHANGED <<i, probes>>
    /\ UNCHANGED <<results, openPorts, sleep, waits, now, parked, result>>
    /\ CallTool

ResumeFirewall ==
    /\ pc = "await"
    /\ tool = "validate_firewall_rule"
    /\ Settled(Last)
    /\ IF Last.promise = "rejected"
       THEN /\ thrown' = Last.reason
            /\ pc' = "done"
            /\ UNCHANGED <<i, results, probes, output>>
       ELSE /\ results' = Append(results, RuleResult(args.rules[i], Last.value[1]))
            /\ thrown' = thrown
            /\ FirewallLoop(args, i + 1, results',
                            output \o RuleBlock(args.rules[i], Last.value[1]))
    /\ UNCHANGED <<tool, args, openPorts, sleep, waits, now, parked, result>>
    /\ CallTool

(***************************************************************************)
(* handleNetworkScan (index.ts).                                           *)
(***************************************************************************)
ScanPorts == (MaxPort - MaxScan + 1)..(MaxPort + 2)

ScanArgs ==
    [host : Hosts, startPort : ScanPorts, endPort : ScanPorts,
     timeout : {Some(2), None}]

\* the two header lines and the empty line that open the report
ScanHeader(a) ==
    << <<"Network Scan: ">> \o a.host
           \o <<":", ToString(a.startPort), "-", ToString(a.endPort)>>,
       Repeat("=", 50), <<>> >>

\* as OpenPortsAfter, but the port is collected whatever the outcome
OpenPortsAfterAnyOutcome(open, port, r) ==
    Append(open, [port |-> port, responseTime |-> r.responseTime])

\* openPorts after the probe of a port delivered r
OpenPortsAfter(open, port, r) ==
    IF r.success
    THEN Append(open, [port |-> port, responseTime |-> r.responseTime])
    ELSE open

\* the report line of an open port
PortLine(port, responseTime) ==
    <<"Port ", ToString(port), ": OPEN (", ToString(responseTime), "ms)">>

\* output after the probe of a port delivered r
OutputAfter(out, port, r) ==
    IF r.success THEN Append(out, PortLine(port, r.responseTime[1])) ELSE out

\* the lines that close the report
ScanSummary(open) ==
    IF Len(open) = 0
    THEN << <<"No open ports found in the specified range.">> >>
    ELSE << <<>>, <<"Summary: Found ", ToString(Len(open)), " open ports">> >>

\* as ScanLoop, but the loop body runs for startPort before the test
ScanLoopAtLeastOnce(a, j, open, out) ==
    /\ i' = j
    /\ IF j <= a.endPort \/ (j = a.startPort /\ probes = <<>>)
       THEN /\ probes' = Append(probes, tcpConnect(a.host, j,
                                                   OrDefault(a.timeout, DefaultScanTimeout)))
            /\ pc' = "await"
            /\ output' = out
       ELSE /\ probes' = probes
            /\ pc' = "done"
            /\ output' = out \o ScanSummary(open)

\* as ScanLoop, but the scan ends at the first port whose probe failed
ScanLoopStopOnFailure(a, j, open, out) ==
    /\ i' = j
    /\ IF j <= a.endPort /\ (probes = <<>> \/ Last.value[1].success)
       THEN /\ probes' = Append(probes, tcpConnect(a.host, j,
                                                   OrDefault(a.timeout, DefaultScanTimeout)))
            /\ pc' = "await"
            /\ output' = out
       ELSE /\ probes' = probes
            /\ pc' = "done"
            /\ output' = out \o ScanSummary(open)

\* the loop test `port <= endPort` with port = j, openPorts open and output
\* out: the tcpConnect call for that port, or the statements after the loop
ScanLoop(a, j, open, out) ==
    /\ i' = j
    /\ IF j <= a.endPort
       THEN /\ probes' = Append(probes, tcpConnect(a.host, j,
                                                   OrDefault(a.timeout, DefaultScanTimeout)))
            /\ pc' = "await"
            /\ output' = out
       ELSE /\ probes' = probes
            /\ pc' = "done"
            /\ output' = out \o ScanSummary(open)

CallScan(a) ==
    /\ pc = "idle"
    /\ tool' = "network_scan"
    /\ args' = a
    /\ ScanLoop(a, a.startPort, <<>>, ScanHeader(a))
    /\ UNCHANGED <<results, openPorts, sleep, waits, now, parked, result, thrown>>
    /\ CallTool

ResumeScan ==
    /\ pc = "await"
    /\ tool = "network_scan"
    /\ Settled(Last)
    /\ IF Last.promise = "rejected"
       THEN /\ thrown' = Last.reason
            /\ pc' = "done"
            /\ UNCHANGED <<i, openPorts, probes, output>>
       ELSE /\ openPorts' = OpenPortsAfter(openPorts, i, Last.value[1])
            /\ thrown' = thrown
            /\ ScanLoop(args, i + 1, openPorts', OutputAfter(output, i, Last.value[1]))
    /\ UNCHANGED <<tool, args, results, sleep, waits, now, parked, result>>
    /\ CallTool

(***************************************************************************)
(* Time.  A timer fires when its delay has elapsed; the clock does not     *)
(* pass the deadline of an armed timer.                                    *)
(***************************************************************************)
ArmedDeadlines ==
    {Deadline(probes[k]) : k \in {j \in DOMAIN probes : probes[j].timer = "armed"}}
    \cup (IF sleep.armed THEN {sleep.start + sleep.delay} ELSE {})

ArmedStarts ==
    {probes[k].startTime : k \in {j \in DOMAIN probes : probes[j].timer = "armed"}}
    \cup (IF sleep.armed THEN {sleep.start} ELSE {})

Tick ==
    /\ ArmedDeadlines # {}
    /\ \A d \in ArmedDeadlines : now < d
    /\ ~(pc = "await" /\ Settled(Last))
    /\ \/ /\ \E s \in ArmedStarts : now - s < MaxFine
          /\ now' = now + 1
       \/ now' = CHOOSE d \in ArmedDeadlines : \A e \in ArmedDeadlines : d <= e
    /\ UNCHANGED <<pc, tool, args, i, results, openPorts, probes, sleep, waits, result, thrown, output,
                   response, parked>>

Init ==
    /\ pc = "idle"
    /\ tool = "none"
    /\ args = <<>>
    /\ i = 0
    /\ results = <<>>
    /\ openPorts = <<>>
    /\ probes = <<>>
    /\ sleep = [armed |-> FALSE, start |-> 0, delay |-> 0]
    /\ waits = 0
    /\ now = 0
    /\ result = None
    /\ thrown = None
    /\ output = <<>>
    /\ response = None
    /\ parked = [id |-> 2, locals |-> Locals]

Next ==
    \/ \E options \in TcpingOptions : CallTcping(options)
    \/ \E a \in FirewallArgs : CallFirewall(a)
    \/ \E a \in ScanArgs : CallScan(a)
    \/ \E name \in UnknownNames : CallUnknown(name)
    \/ ResumeTcping
    \/ ResumeFirewall
    \/ ResumeScan
    \/ SleepDone
    \/ \E k \in DOMAIN probes : OnConnect(k)
    \/ \E k \in DOMAIN probes : OnError(k)
    \/ \E k \in DOMAIN probes : OnTimeout(k)
    \/ Tick

Spec == Init /\ [][Next]_vars

\* One turn of the event loop: a timer callback whose delay has elapsed or
\* the continuation of a settled await runs, or else time passes.
EventLoop ==
    \/ \E k \in DOMAIN probes : OnTimeout(k)
    \/ SleepDone
    \/ ResumeTcping
    \/ ResumeFirewall
    \/ ResumeScan
    \/ Tick

\* The event loop keeps turning while it has something to run.  Nothing
\* obliges the peer to answer: OnConnect and OnError carry no fairness.
Fairness == WF_vars(EventLoop)

FairSpec == Spec /\ Fairness

(***************************************************************************)
(* The validators called on their own (utils/validators.ts), as the tests  *)
(* call them: one call per behaviour, on a sampled input.                  *)
(***************************************************************************)
(* Two invocations.  The server handles a second request while the first   *)
(* one is suspended at an await: the event loop runs one callback or       *)
(* continuation at a time, of either invocation.  The variables of the     *)
(* invocation that is not running are kept in parked.                      *)
(***************************************************************************)
\* the requests of the two invocations: a tcping of two attempts, an
\* evaluation of two rules, a scan of two ports and a scan that runs into a
\* port the socket refuses
PairTcping ==
    {[host |-> ValidHost, port |-> 80, timeout |-> Some(2), count |-> Some(2),
      interval |-> Some(1)]}

PairFirewall ==
    {[rules |-> <<[name |-> "web", host |-> ValidHost, port |-> 80, expected |-> TRUE],
                  [name |-> "ssh", host |-> ValidHost, port |-> 80, expected |-> FALSE]>>,
      timeout |-> Some(2)]}

PairScan ==
    {[host |-> ValidHost, startPort |-> MaxPort - 1, endPort |-> MaxPort, timeout |-> Some(2)],
     [host |-> ValidHost, startPort |-> MaxPort, endPort |-> MaxPort + 1, timeout |-> Some(2)]}

\* as Switch, but openPorts is one array of the module: it is not part of
\* what an invocation keeps for itself
SwitchSharedOpenPorts ==
    /\ pc # "idle"
    /\ ~(pc = "await" /\ Settled(Last))
    /\ parked' = [id |-> 3 - parked.id, locals |-> Locals]
    /\ pc' = parked.locals.pc
    /\ tool' = parked.locals.tool
    /\ args' = parked.locals.args
    /\ i' = parked.locals.i
    /\ results' = parked.locals.results
    /\ probes' = parked.locals.probes
    /\ sleep' = parked.locals.sleep
    /\ waits' = parked.locals.waits
    /\ result' = parked.locals.result
    /\ thrown' = parked.locals.thrown
    /\ output' = parked.locals.output
    /\ response' = parked.locals.response
    /\ UNCHANGED <<openPorts, now>>

\* The running invocation is suspended at an await whose promise is not yet
\* settled (or has returned) and the event loop turns to the other
\* invocation: each invocation finds its own variables as it left them.
Switch ==
    /\ pc # "idle"
    /\ ~(pc = "await" /\ Settled(Last))
    /\ parked' = [id |-> 3 - parked.id, locals |-> Locals]
    /\ pc' = parked.locals.pc
    /\ tool' = parked.locals.tool
    /\ args' = parked.locals.args
    /\ i' = parked.locals.i
    /\ results' = parked.locals.results
    /\ openPorts' = parked.locals.openPorts
    /\ probes' = parked.locals.probes
    /\ sleep' = parked.locals.sleep
    /\ waits' = parked.locals.waits
    /\ result' = parked.locals.result
    /\ thrown' = parked.locals.thrown
    /\ output' = parked.locals.output
    /\ response' = parked.locals.response
    /\ now' = now

\* the deadlines and the start times of the armed timers of the invocation
\* that is not running
ParkedDeadlines ==
    {Deadline(parked.locals.probes[k]) :
         k \in {j \in DOMAIN parked.locals.probes : parked.locals.probes[j].timer = "armed"}}
    \cup (IF parked.locals.sleep.armed
          THEN {parked.locals.sleep.start + parked.locals.sleep.delay} ELSE {})

ParkedStarts ==
    {parked.locals.probes[k].startTime :
         k \in {j \in DOMAIN parked.locals.probes : parked.locals.probes[j].timer = "armed"}}
    \cup (IF parked.locals.sleep.armed THEN {parked.locals.sleep.start} ELSE {})

\* time passes for both invocations: as Tick, over the timers of both
PairTick ==
    /\ ArmedDeadlines \cup ParkedDeadlines # {}
    /\ \A d \in ArmedDeadlines \cup ParkedDeadlines : now < d
    /\ ~(pc = "await" /\ Settled(Last))
    /\ \/ /\ \E s \in ArmedStarts \cup ParkedStarts : now - s < MaxFine
          /\ now' = now + 1
       \/ now' = CHOOSE d \in ArmedDeadlines \cup ParkedDeadlines :
                     \A e \in ArmedDeadlines \cup ParkedDeadlines : d <= e
    /\ UNCHANGED <<pc, tool, args, i, results, openPorts, probes, sleep, waits, result, thrown,
                   output, response, parked>>

PairNext ==
    \/ \E options \in PairTcping : CallTcping(options)
    \/ \E a \in PairFirewall : CallFirewall(a)
    \/ \E a \in PairScan : CallScan(a)
    \/ ResumeTcping
    \/ ResumeFirewall
    \/ ResumeScan
    \/ SleepDone
    \/ \E k \in DOMAIN probes : OnConnect(k)
    \/ \E k \in DOMAIN probes : OnError(k)
    \/ \E k \in DOMAIN probes : OnTimeout(k)
    \/ PairTick
    \/ Switch

PairSpec == Init /\ [][PairNext]_vars

(***************************************************************************)
RECURSIVE Join(_, _)

\* the pieces joined by sep into one string
Join(pieces, sep) ==
    IF Len(pieces) = 0 THEN <<>>
    ELSE IF Len(pieces) = 1 THEN pieces[1]
    ELSE pieces[1] \o <<sep>> \o Join(Tail(pieces), sep)

\* digit groups: in range, the largest octet, just above it, four digits
Groups == {<<"0">>, <<"2", "5", "5">>, <<"2", "5", "6">>, <<"1", "2", "3", "4">>}

\* the strings of 1..MaxGroups digit groups separated by dots
DottedHosts == {Join(gs, ".") : gs \in SeqsUpTo(Groups, MaxGroups) \ {<<>>}}

NameChars == {"a", "1", "-", "."}

\* every string over NameChars of at most MaxHostLen characters
NameHosts == SeqsUpTo(NameChars, MaxHostLen)

SampleHosts == DottedHosts \cup NameHosts \cup {NonString}

SamplePorts == {-1, 0, 1, 80, MaxPort, MaxPort + 1}

\* hosts of each kind for validateConnection
PairHosts == {NonString, <<>>, ValidHost, BadHost, <<"2", "5", "6">>, Join(<<<<"0">>, <<"0">>, <<"0">>, <<"0">>>>, ".")}

CallIsValidHost(host) ==
    /\ pc = "idle"
    /\ tool' = "isValidHost"
    /\ args' = [host |-> host]
    /\ result' = Some(isValidHost(host))
    /\ pc' = "done"
    /\ UNCHANGED <<i, results, openPorts, probes, sleep, waits, now, parked, thrown, output, response>>

CallIsValidPort(port) ==
    /\ pc = "idle"
    /\ tool' = "isValidPort"
    /\ args' = [port |-> port]
    /\ result' = Some(isValidPort(port))
    /\ pc' = "done"
    /\ UNCHANGED <<i, results, openPorts, probes, sleep, waits, now, parked, thrown, output, response>>

CallValidateConnection(host, port) ==
    /\ pc = "idle"
    /\ tool' = "validateConnection"
    /\ args' = [host |-> host, port |-> port]
    /\ result' = Some(validateConnection(host, port))
    /\ pc' = "done"
    /\ UNCHANGED <<i, results, openPorts, probes, sleep, waits, now, parked, thrown, output, response>>

ValidatorNext ==
    \/ \E host \in SampleHosts : CallIsValidHost(host)
    \/ \E port \in SamplePorts : CallIsValidPort(port)
    \/ \E host \in PairHosts, port \in SamplePorts : CallValidateConnection(host, port)

ValidatorSpec == Init /\ [][ValidatorNext]_vars

(***************************************************************************)
(* Properties.                                                             *)
(***************************************************************************)
Rejected(host, port) == ~validateConnection(host, port).isValid

TcpingReturned == tool = "tcping" /\ pc = "done" /\ IsSome(result)

\* C1: a tcping call whose (host, port) validateConnection rejects makes no
\* connector call and returns attempts = 0, successfulAttempts = 0, no
\* per-attempt outcomes, success = false and no statistics.
C1_InvalidInputNotProbed ==
    (tool = "tcping" /\ Rejected(args.host, args.port)) =>
        /\ probes = <<>>
        /\ pc = "done" =>
               /\ IsSome(result)
               /\ result[1].attempts = 0
               /\ result[1].successfulAttempts = 0
               /\ result[1].results = <<>>
               /\ result[1].success = FALSE
               /\ result[1].averageTime = None
               /\ result[1].minTime = None
               /\ result[1].maxTime = None

\* C2: a connector call for a target validateConnection rejects opens no
\* socket, and the outcome it delivers is a failure whose error is the
\* validator's message.
C2_InvalidTargetNoSocket ==
    \A k \in DOMAIN probes :
        Rejected(probes[k].host, probes[k].port) =>
            /\ probes[k].socket = "none"
            /\ Settled(probes[k]) =>
                   /\ probes[k].promise = "resolved"
                   /\ probes[k].value[1].success = FALSE
                   /\ probes[k].value[1].error =
                          validateConnection(probes[k].host, probes[k].port).error

\* the outcome each of the three events stands for
ConnectOutcome(p) ==
    [success |-> TRUE, responseTime |-> Some(now - p.startTime), error |-> None]

TimeoutOutcome(p) ==
    [success |-> FALSE, responseTime |-> None,
     error |-> Some(<<"Connection timeout after ", ToString(p.timeout), "ms">>)]

IsErrorOutcome(r) == r.success = FALSE /\ r.responseTime = None /\ IsSome(r.error)

\* C3: the first of connect / error / timer expiry to occur in a tcpConnect
\* call decides the outcome that is delivered; once an outcome is delivered
\* no later event changes it.
C3_FirstEventWins ==
    [][\A k \in DOMAIN probes :
           /\ Settled(probes[k]) =>
                  /\ probes'[k].promise = probes[k].promise
                  /\ probes'[k].value = probes[k].value
                  /\ probes'[k].reason = probes[k].reason
           /\ (~Settled(probes[k]) /\ OnConnect(k)) =>
                  /\ probes'[k].promise = "resolved"
                  /\ probes'[k].value = Some(ConnectOutcome(probes[k]))
           /\ (~Settled(probes[k]) /\ OnError(k)) =>
                  /\ probes'[k].promise = "resolved"
                  /\ IsErrorOutcome(probes'[k].value[1])
                  /\ probes'[k].value[1].error[1] \in ErrorMessages
           /\ (~Settled(probes[k]) /\ OnTimeout(k)) =>
                  /\ probes'[k].promise = "resolved"
                  /\ probes'[k].value = Some(TimeoutOutcome(probes[k]))]_vars

\* an event (the timer) arrived after the call's outcome had been delivered
C3_Witness ==
    \E k \in DOMAIN probes : probes[k].promise = "rejected" /\ probes[k].timer = "fired"

\* C4: when a tcpConnect call has delivered its outcome, on whatever path,
\* its socket has been destroyed.
C4_SocketDestroyedOnDelivery ==
    \A k \in DOMAIN probes : Settled(probes[k]) => probes[k].socket = "destroyed"

InFlight == {k \in DOMAIN probes : ~Settled(probes[k])}

\* C5: within one tool call at most one probe is in flight, and a probe is
\* initiated only when every earlier probe has delivered its outcome.
C5_OneProbeInFlight ==
    /\ Cardinality(InFlight) <= 1
    /\ \A k \in DOMAIN probes : k < Len(probes) => Settled(probes[k])

\* a second probe is in flight after the first one was awaited
C5_Witness == Len(probes) >= 2 /\ InFlight = {Len(probes)}

TcpingCallsAsCounted(count) ==
    /\ Len(probes) <= count
    /\ \A k \in DOMAIN probes :
           /\ probes[k].host = args.host
           /\ probes[k].port = args.port
           /\ probes[k].timeout = TcpingTimeout
    /\ pc = "done" =>
           /\ IsSome(result)
           /\ Len(probes) = count
           /\ result[1].attempts = count
           /\ Len(result[1].results) = count
           /\ \A k \in DOMAIN probes : result[1].results[k] = probes[k].value[1]

\* C6 as stated: for a valid target and every count, tcping makes exactly
\* count connector calls with the caller's timeout and returns attempts =
\* count and the count outcomes in probe order.
C6_ExactlyCountProbes_AnyCount ==
    (tool = "tcping" /\ ~Rejected(args.host, args.port)) => TcpingCallsAsCounted(TcpingCount)

\* C6 (amended): for a valid target and every integer count >= 0, tcping
\* makes exactly count connector calls with the caller's timeout and returns
\* attempts = count and the count outcomes in probe order.
C6_ExactlyCountProbes ==
    (tool = "tcping" /\ TcpingCount >= 0) =>
        (TcpingCallsAsCounted(TcpingCount) \/ Rejected(args.host, args.port))

\* tcping returned after several probes to a valid target
C6_Witness ==
    /\ TcpingReturned
    /\ ~Rejected(args.host, args.port)
    /\ TcpingCount >= 2
    /\ Len(probes) = TcpingCount

\* C7: in a result of tcping, averageTime, minTime and maxTime are all
\* present if successfulAttempts > 0 and all absent if it is 0.
C7_StatisticsIffSuccess ==
    TcpingReturned =>
        /\ IsSome(result[1].averageTime) <=> result[1].successfulAttempts > 0
        /\ IsSome(result[1].minTime) <=> result[1].successfulAttempts > 0
        /\ IsSome(result[1].maxTime) <=> result[1].successfulAttempts > 0

RECURSIVE SuccessTimes(_)

\* the response times of the successful attempts, in order
SuccessTimes(rs) ==
    IF rs = <<>> THEN <<>>
    ELSE (IF Head(rs).success THEN Head(rs).responseTime ELSE <<>>) \o SuccessTimes(Tail(rs))

\* C8: when tcping reports statistics, averageTime is the rounded mean of
\* the response times of exactly the successful attempts, and minTime and
\* maxTime are the minimum and maximum of the same times.
C8_StatisticsOverSuccessful ==
    (TcpingReturned /\ IsSome(result[1].averageTime)) =>
        LET times == SuccessTimes(result[1].results)
        IN  /\ Len(times) > 0
            /\ 2 * Len(times) * result[1].averageTime[1] <= 2 * Sum(times) + Len(times)
            /\ 2 * Len(times) * result[1].averageTime[1] > 2 * Sum(times) - Len(times)
            /\ \E k \in DOMAIN times : times[k] = result[1].minTime[1]
            /\ \A k \in DOMAIN times : times[k] >= result[1].minTime[1]
            /\ \E k \in DOMAIN times : times[k] = result[1].maxTime[1]
            /\ \A k \in DOMAIN times : times[k] <= result[1].maxTime[1]

\* C9: when tcping reports statistics, minTime <= averageTime <= maxTime.
C9_AverageBetweenMinAndMax ==
    (TcpingReturned /\ IsSome(result[1].averageTime)) =>
        /\ IsSome(result[1].minTime)
        /\ IsSome(result[1].maxTime)
        /\ result[1].minTime[1] <= result[1].averageTime[1]
        /\ result[1].averageTime[1] <= result[1].maxTime[1]

\* statistics over unequal response times whose mean is not an integer
C9_Witness ==
    /\ TcpingReturned
    /\ IsSome(result[1].averageTime)
    /\ result[1].minTime[1] < result[1].maxTime[1]
    /\ LET times == ResponseTimes(result[1].results)
       IN  Sum(times) % Len(times) # 0

\* C10: in a result of tcping, successfulAttempts is the number of
\* per-attempt outcomes with success = true, and
\* 0 <= successfulAttempts <= attempts.
C10_SuccessfulAttemptsBounded ==
    TcpingReturned =>
        /\ result[1].successfulAttempts =
               Cardinality({k \in DOMAIN result[1].results : result[1].results[k].success})
        /\ 0 <= result[1].successfulAttempts
        /\ result[1].successfulAttempts <= result[1].attempts

\* C11: the success flag of a tcping result is true iff at least one of its
\* probes succeeded; a run whose probes all fail or time out reports
\* success = false.
C11_SuccessIffSomeProbeSucceeded ==
    TcpingReturned =>
        /\ result[1].success <=> result[1].successfulAttempts > 0
        /\ result[1].success <=>
               \E k \in DOMAIN probes :
                   probes[k].promise = "resolved" /\ probes[k].value[1].success

\* tcping returned after probes of which some succeeded and some failed
C11_Witness ==
    /\ TcpingReturned
    /\ result[1].success
    /\ \E k \in DOMAIN probes : ~probes[k].value[1].success

TcpingWaits(count) ==
    /\ pc = "sleep" =>
           /\ sleep.armed
           /\ waits = Len(probes)
           /\ Len(probes) < count
           /\ \A k \in DOMAIN probes : Settled(probes[k])
    /\ pc = "await" => ~sleep.armed /\ waits = Len(probes) - 1
    /\ pc = "done" => ~sleep.armed /\ waits = count - 1 /\ Len(probes) = count

Planned ==
    IF tool = "tcping"
    THEN [k \in 1..(IF TcpingCount > 0 THEN TcpingCount ELSE 0) |->
              [host |-> args.host, port |-> args.port, timeout |-> TcpingTimeout]]
    ELSE IF tool = "validate_firewall_rule" /\ Iterable(args.rules)
    THEN [k \in 1..Len(args.rules) |->
              [host |-> args.rules[k].host, port |-> args.rules[k].port,
               timeout |-> OrDefault(args.timeout, DefaultTimeout)]]
    ELSE IF tool = "network_scan"
    THEN [k \in 1..(IF args.endPort >= args.startPort
                    THEN args.endPort - args.startPort + 1 ELSE 0) |->
              [host |-> args.host, port |-> args.startPort + k - 1,
               timeout |-> OrDefault(args.timeout, DefaultScanTimeout)]]
    ELSE <<>>

\* the planned probes up to the first one whose port the socket refuses: a
\* function of the request alone
Issued ==
    LET refused == {k \in DOMAIN Planned : ~SocketAcceptsPort(Planned[k].port)}
    IN  IF refused = {} THEN Planned
        ELSE SubSeq(Planned, 1, CHOOSE k \in refused : \A j \in refused : k <= j)

\* host, port and timeout of the tcpConnect calls made so far, in call order
Targets ==
    [k \in DOMAIN probes |->
         [host |-> probes[k].host, port |-> probes[k].port, timeout |-> probes[k].timeout]]

\* C13: a probe that fails or times out does not abort tcping, the firewall
\* evaluation or the scan: the number, order and targets of the probes are
\* a function of the request, the same whatever the earlier probes delivered
\* (connect, error or timeout).
C13_ProbesIndependentOfOutcomes ==
    /\ Len(probes) <= Len(Issued)
    /\ Targets = SubSeq(Issued, 1, Len(probes))
    /\ pc = "done" => Targets = Issued
    /\ \A k \in DOMAIN probes :
           (probes[k].promise = "resolved" /\ k < Len(Issued)) =>
               (pc = "done" => Len(probes) > k)

\* an operation ended after probes of which an earlier one ended in an
\* error and another in a timeout
C13_Witness ==
    /\ pc = "done"
    /\ \E j, k \in DOMAIN probes :
           /\ j < Len(probes) /\ k < Len(probes)
           /\ probes[j].promise = "resolved" /\ probes[k].promise = "resolved"
           /\ probes[j].value[1] = TimeoutOutcome(probes[j])
           /\ IsErrorOutcome(probes[k].value[1])
           /\ probes[k].value[1] # TimeoutOutcome(probes[k])

\* C14: a tcpConnect call that has seen neither the connection established
\* nor a socket error when timeout ms have passed since its initiation
\* delivers success = false with error 'Connection timeout after
\* {timeout}ms' and no response time, and delivers it no earlier than
\* timeout ms after initiation.
C14_TimeoutOutcome ==
    \A k \in DOMAIN probes :
        LET p == probes[k]
        IN  /\ p.promise = "pending" =>
                   /\ p.timer = "armed"
                   /\ now <= p.startTime + p.timeout
                   /\ now = p.startTime + p.timeout => ENABLED OnTimeout(k)
            /\ (p.promise = "resolved" /\ p.timer = "fired") =>
                   /\ p.value = Some(TimeoutOutcome(p))
                   /\ now >= p.startTime + p.timeout
            /\ (p.promise = "resolved" /\ p.value[1].error = TimeoutOutcome(p).error) =>
                   p.timer = "fired"

\* a call with the default timeout has just delivered the timeout outcome
C14_Witness ==
    /\ probes # <<>>
    /\ Last.timeout = DefaultTimeout
    /\ Last.promise = "resolved"
    /\ Last.value = Some(TimeoutOutcome(Last))
    /\ now = Last.startTime + Last.timeout

NonNegative(n) == IF n > 0 THEN n ELSE 0

\* the operation has been called and has not ended / has ended
Running == pc \in {"await", "sleep"}

Done == pc = "done"

WithinBounds(tcpingUnits, scanUnits) ==
    /\ tool = "tcping" => now <= tcpingUnits * (TcpingTimeout + TcpingInterval)
    /\ tool = "network_scan" =>
           now <= scanUnits * OrDefault(args.timeout, DefaultScanTimeout)

SuccessShape(r) == r.success /\ IsSome(r.responseTime) /\ r.error = None

FailureShape(r) == ~r.success /\ IsSome(r.error) /\ r.responseTime = None

\* C16: every outcome tcpConnect delivers is either success = true with a
\* responseTime and no error, or success = false with an error and no
\* responseTime; so is every outcome the callers have stored.
C16_OutcomeShapes ==
    /\ \A k \in DOMAIN probes :
           probes[k].promise = "resolved" =>
               /\ IsSome(probes[k].value)
               /\ SuccessShape(probes[k].value[1]) \/ FailureShape(probes[k].value[1])
               /\ ~(SuccessShape(probes[k].value[1]) /\ FailureShape(probes[k].value[1]))
    /\ \A k \in DOMAIN probes : probes[k].promise = "pending" => probes[k].value = None
    /\ tool = "tcping" =>
           \A k \in DOMAIN results :
               SuccessShape(results[k]) \/ FailureShape(results[k])
    /\ tool = "validate_firewall_rule" =>
           \A k \in DOMAIN results :
               LET r == [success |-> results[k].actual,
                         responseTime |-> results[k].responseTime,
                         error |-> results[k].error]
               IN  SuccessShape(r) \/ FailureShape(r)
    /\ \A k \in DOMAIN openPorts : IsSome(openPorts[k].responseTime)

\* outcomes of all three origins have been delivered: a connect, an error
\* event and a timeout
C16_Witness ==
    \E j, k, l \in DOMAIN probes :
        /\ probes[j].promise = "resolved" /\ SuccessShape(probes[j].value[1])
        /\ probes[k].promise = "resolved" /\ probes[k].value[1] = TimeoutOutcome(probes[k])
        /\ probes[l].promise = "resolved" /\ FailureShape(probes[l].value[1])
        /\ probes[l].value[1] # TimeoutOutcome(probes[l])

\* the lines of the report that begin with the given piece, in order
LinesOf(first) == SelectSeq(output, LAMBDA l : l # <<>> /\ l[1] = first)

\* C17: for every rule the firewall evaluator has evaluated,
\* passed = (the probe's success = expected): a rule expecting a blocked
\* target passes exactly when its probe failed, a rule expecting a
\* reachable target passes exactly when its probe succeeded; and the
\* PASS/FAIL marker of the rule's report block agrees with the stored passed.
C17_PassedIffActualIsExpected ==
    tool = "validate_firewall_rule" =>
        /\ Len(LinesOf("  Status: ")) = Len(results)
        /\ \A k \in DOMAIN results :
               LET rule == args.rules[k]
                   succeeded == probes[k].value[1].success
               IN  /\ results[k].actual = succeeded
                   /\ results[k].passed = (succeeded = rule.expected)
                   /\ ~rule.expected => (results[k].passed <=> ~succeeded)
                   /\ rule.expected => (results[k].passed <=> succeeded)
                   /\ LinesOf("  Status: ")[k] =
                          <<"  Status: ",
                            IF results[k].passed THEN "U+2705 PASS" ELSE "U+274C FAIL">>

\* the evaluation ended with a rule expecting a blocked target that passed
\* and a rule expecting a reachable target that failed
C17_Witness ==
    /\ tool = "validate_firewall_rule"
    /\ pc = "done"
    /\ \E j, k \in DOMAIN results :
           /\ ~results[j].expected /\ results[j].passed
           /\ results[k].expected /\ ~results[k].passed

\* C18: the firewall evaluator makes exactly one tcpConnect call per rule, in
\* input order and with no retry; when it ends there are as many results as
\* rules, and the i-th result and the i-th report block are those of the
\* i-th rule.
C18_OneCallPerRule ==
    tool = "validate_firewall_rule" =>
        /\ Len(probes) <= Len(args.rules)
        /\ \A k \in DOMAIN probes :
               /\ probes[k].host = args.rules[k].host
               /\ probes[k].port = args.rules[k].port
        /\ Len(LinesOf("Rule: ")) = Len(results)
        /\ \A k \in DOMAIN results :
               /\ results[k].name = args.rules[k].name
               /\ results[k].host = args.rules[k].host
               /\ results[k].port = args.rules[k].port
               /\ results[k].expected = args.rules[k].expected
               /\ LinesOf("Rule: ")[k] = <<"Rule: ", args.rules[k].name>>
        /\ pc = "done" =>
               /\ Len(probes) = Len(args.rules)
               /\ Len(results) = Len(args.rules)

\* C19: a scan makes exactly one tcpConnect call for each port from
\* startPort to endPort, in ascending order, and none for a port outside
\* that range.
C19_OneCallPerPortInRange ==
    tool = "network_scan" =>
        /\ \A k \in DOMAIN probes :
               /\ probes[k].host = args.host
               /\ probes[k].port = args.startPort + k - 1
               /\ probes[k].port >= args.startPort
               /\ probes[k].port <= args.endPort
        /\ pc = "done" =>
               \A port \in args.startPort..args.endPort :
                   \E k \in DOMAIN probes : probes[k].port = port

\* the number of tcpConnect calls whose outcome the scanner has received
Consumed ==
    IF pc = "done" /\ probes # <<>> /\ Last.promise = "resolved"
    THEN Len(probes)
    ELSE NonNegative(Len(probes) - 1)

\* the calls among them that succeeded, in call order
OpenProbes == SelectSeq(SubSeq(probes, 1, Consumed), LAMBDA p : p.value[1].success)

\* C20: the scanner's openPorts is exactly the strictly ascending sequence
\* of the ports of startPort..endPort whose probe succeeded, each with that
\* probe's response time; a port whose probe failed or timed out has been
\* probed but is absent from openPorts and from the report's port lines.
C20_OpenPortsAreTheSuccesses ==
    tool = "network_scan" =>
        /\ Len(openPorts) = Len(OpenProbes)
        /\ \A k \in DOMAIN openPorts :
               /\ openPorts[k].port = OpenProbes[k].port
               /\ openPorts[k].responseTime = OpenProbes[k].value[1].responseTime
               /\ openPorts[k].port \in args.startPort..args.endPort
        /\ \A j, k \in DOMAIN openPorts : j < k => openPorts[j].port < openPorts[k].port
        /\ Len(LinesOf("Port ")) = Len(openPorts)
        /\ \A k \in DOMAIN openPorts :
               LinesOf("Port ")[k] =
                   <<"Port ", ToString(openPorts[k].port), ": OPEN (",
                     ToString(openPorts[k].responseTime[1]), "ms)">>
        /\ \A k \in 1..Consumed :
               ~probes[k].value[1].success =>
                   \A j \in DOMAIN openPorts : openPorts[j].port # probes[k].port

\* a scan of two ports returned with the first closed and the second open
C20_Witness ==
    /\ tool = "network_scan"
    /\ pc = "done"
    /\ thrown = None
    /\ Len(probes) = 2
    /\ ~probes[1].value[1].success
    /\ Len(openPorts) = 1
    /\ openPorts[1].port = args.endPort

\* C21: a scan with startPort > endPort makes no tcpConnect call and
\* returns, without an error, an empty list of open ports and the report
\* that ends with 'No open ports found in the specified range.'.
C21_EmptyRange ==
    (tool = "network_scan" /\ args.startPort > args.endPort) =>
        /\ pc = "done"
        /\ probes = <<>>
        /\ thrown = None
        /\ openPorts = <<>>
        /\ LinesOf("Port ") = <<>>
        /\ output # <<>>
        /\ output[Len(output)] = <<"No open ports found in the specified range.">>

\* a scan whose range is empty has returned; its startPort is a port the
\* socket layer would refuse
C21_Witness ==
    /\ tool = "network_scan"
    /\ pc = "done"
    /\ args.startPort > args.endPort
    /\ ~SocketAcceptsPort(args.startPort)

\* C22: every tool request that has ended has been answered with a result,
\* and nothing thrown has left the request handler: an unknown tool name is
\* answered with an error result that names the tool, anything thrown or
\* rejected inside a handler (arguments without rules, a rejected
\* tcpConnect) with an error result carrying its message, everything else
\* with the handler's report.
C22_BoundaryAlwaysAnswers ==
    /\ pc = "done" <=> IsSome(response)
    /\ pc = "done" =>
           /\ response[1].isError <=> IsSome(thrown)
           /\ IsSome(thrown) => response[1].text = << <<"Error: ">> \o thrown[1] >>
           /\ ~IsSome(thrown) => response[1].text = output
           /\ tool \in UnknownNames =>
                  /\ response[1].isError
                  /\ response[1].text = << <<"Error: ", "Unknown tool: ", tool>> >>
           /\ (tool = "validate_firewall_rule" /\ ~Iterable(args.rules)) =>
                  response[1].isError
           /\ (probes # <<>> /\ Last.promise = "rejected") => response[1].isError

\* a firewall request whose arguments have no rules has been answered with
\* the text of the TypeError
C22_Witness ==
    /\ tool = "validate_firewall_rule"
    /\ ~Iterable(args.rules)
    /\ IsSome(response)
    /\ response[1] = [isError |-> TRUE, text |-> << <<"Error: ", "rules is not iterable">> >>]

\* C23: every failure of a single probe, a probe whose connection cannot be
\* started included, ends as a failed outcome value of tcpConnect: no
\* tcpConnect call is rejected, no handler that has probed throws, and the
\* request is answered with the report of what was gathered.
C23_ProbeFailuresRecovered ==
    /\ \A k \in DOMAIN probes : probes[k].promise # "rejected"
    /\ probes # <<>> => thrown = None
    /\ (pc = "done" /\ probes # <<>>) =>
           /\ ~response[1].isError
           /\ response[1].text = output

\* a call of the named validator has returned
Returned(name) == tool = name /\ pc = "done"

\* C24: validateConnection(host, port) returns {isValid: true} if and only
\* if isValidHost(host) and isValidPort(port); otherwise isValid = false
\* with the message of the first failing check, in the order host empty or
\* not a string, host format, port - a host error goes before a port error.
C24_ValidateConnection ==
    Returned("validateConnection") =>
        LET r == result[1]
        IN  /\ r.isValid <=> (isValidHost(args.host) /\ isValidPort(args.port))
            /\ r.isValid => r = [isValid |-> TRUE, error |-> None]
            /\ ~r.isValid =>
                   r.error = Some(IF args.host = <<>> \/ args.host = NonString
                                  THEN <<"Host must be a non-empty string">>
                                  ELSE IF ~isValidHost(args.host)
                                  THEN <<"Invalid hostname or IP address format">>
                                  ELSE <<"Port must be an integer between 1 and 65535">>)

\* validateConnection was given a malformed host together with a port out
\* of range and answered with the host's message
C24_Witness ==
    /\ Returned("validateConnection")
    /\ args.host = BadHost
    /\ args.port = MaxPort + 1
    /\ result[1].error = Some(<<"Invalid hostname or IP address format">>)

\* C25: isValidPort(port) is true if and only if port is an integer with
\* 1 <= port <= 65535; 0, negative numbers and 65536 are rejected, 1 and
\* 65535 are accepted.
C25_IsValidPort ==
    Returned("isValidPort") =>
        /\ result[1] <=> args.port \in 1..65535
        /\ args.port \in {-1, 0, 65536} => result[1] = FALSE
        /\ args.port \in {1, 65535} => result[1] = TRUE

\* isValidPort has rejected 0, the largest number below the range
C25_Witness == Returned("isValidPort") /\ args.port = 0 /\ result = Some(FALSE)

\* the dot-separated pieces of a host string
Labels(host) == Split(host, ".")

\* the host is IPv4-shaped: decimal digit groups separated by dots
Ipv4Shaped(host) ==
    /\ IsString(host)
    /\ \A k \in DOMAIN Labels(host) :
           /\ Labels(host)[k] # <<>>
           /\ \A m \in DOMAIN Labels(host)[k] : Labels(host)[k][m] \in Digit

\* every digit group of the host has a value in 0..255
GroupsInRange(host) ==
    \A k \in DOMAIN Labels(host) : ParseInt(Labels(host)[k]) <= 255

\* C26: for every IPv4-shaped string, isValidHost is true if it has exactly
\* 4 groups each with value in 0..255, and false if any group has a value
\* above 255 or the number of groups is not 4.
C26_Ipv4Shaped ==
    (Returned("isValidHost") /\ Ipv4Shaped(args.host)) =>
        result[1] = (Len(Labels(args.host)) = 4 /\ GroupsInRange(args.host))

\* the host has an empty label: a leading, trailing or doubled dot
HasEmptyLabel(host) == \E k \in DOMAIN Labels(host) : Labels(host)[k] = <<>>

\* the host has a label that begins or ends with a hyphen
HasHyphenEdge(host) ==
    \E k \in DOMAIN Labels(host) :
        /\ Labels(host)[k] # <<>>
        /\ "-" \in {Labels(host)[k][1], Labels(host)[k][Len(Labels(host)[k])]}

\* every label of the host starts and ends with an alphanumeric character
LabelsWellFormed(host) ==
    \A k \in DOMAIN Labels(host) :
        /\ Labels(host)[k] # <<>>
        /\ Head(Labels(host)[k]) \in Alnum
        /\ Labels(host)[k][Len(Labels(host)[k])] \in Alnum

\* the host is a string over letters, digits, '-' and '.'
OverHostChars(host) ==
    IsString(host) /\ \A k \in DOMAIN host : host[k] \in Alnum \cup {"-", "."}

\* C27: for host strings over letters, digits, '-' and '.', isValidHost
\* rejects every string that contains an empty label or a label that begins
\* or ends with '-', and accepts every string that is not IPv4-shaped and
\* whose dot-separated labels all start and end with an alphanumeric
\* character.
C27_HostnameLabels ==
    (Returned("isValidHost") /\ OverHostChars(args.host)) =>
        /\ (HasEmptyLabel(args.host) \/ HasHyphenEdge(args.host)) => result[1] = FALSE
        /\ (~Ipv4Shaped(args.host) /\ LabelsWellFormed(args.host)) => result[1] = TRUE

\* isValidHost has rejected a name whose first label ends with a hyphen
C27_Witness ==
    /\ Returned("isValidHost")
    /\ args.host = <<"a", "-", ".", "a">>
    /\ result = Some(FALSE)

\* the positions in the report of the lines that open a rule's block
RuleLines == {p \in DOMAIN output : output[p] # <<>> /\ output[p][1] = "Rule: "}

\* the position of the k-th such line
RuleLine(k) == CHOOSE p \in RuleLines : Cardinality({q \in RuleLines : q <= p}) = k

\* the block of the k-th rule: its lines up to the blank line that closes it
Block(k) ==
    LET first == RuleLine(k)
        blank == CHOOSE q \in DOMAIN output :
                     /\ q > first
                     /\ output[q] = <<>>
                     /\ \A m \in (first + 1)..(q - 1) : output[m] # <<>>
    IN  SubSeq(output, first, blank - 1)

\* C30: for every rule, the firewall report block contains the rule name,
\* the target, the expected state (CONNECTED or BLOCKED), the actual state
\* (CONNECTED or BLOCKED/FAILED), the pass/fail marker, and exactly one
\* detail line: a response-time line when the probe succeeded (for any
\* non-negative response time) or an error line when the probe failed.
C30_RuleBlocks ==
    (tool = "validate_firewall_rule" /\ Iterable(args.rules)) =>
        /\ Cardinality(RuleLines) = Len(results)
        /\ \A k \in DOMAIN results :
               LET rule == args.rules[k]
                   r == results[k]
                   b == Block(k)
               IN  /\ Len(b) = 6
                   /\ b[1] = <<"Rule: ", rule.name>>
                   /\ b[2] = <<"  Target: ">> \o rule.host \o <<":", ToString(rule.port)>>
                   /\ b[3] = <<"  Expected: ", IF rule.expected THEN "CONNECTED" ELSE "BLOCKED">>
                   /\ b[4] = <<"  Actual: ", IF r.actual THEN "CONNECTED" ELSE "BLOCKED/FAILED">>
                   /\ b[5] = <<"  Status: ", Status(r.actual = rule.expected)>>
                   /\ b[6] = IF r.actual
                             THEN <<"  Response Time: ", ToString(r.responseTime[1]), "ms">>
                             ELSE <<"  Error: ">> \o r.error[1]

\* the k-th tcpConnect call before any of its callbacks ran
Pending(k) ==
    [probes[k] EXCEPT !.socket = "connecting", !.timer = "armed",
                      !.promise = "pending", !.value = None]

\* The outcome of the k-th call in the run that differs from this one in the
\* kind of its failure: a connect error where this run's timer fired, a
\* timeout where this run's socket reported an error.  A success is the same
\* in both runs.
OtherKind(k) ==
    IF probes[k].value[1].success THEN probes[k].value[1]
    ELSE IF probes[k].timer = "fired"
         THEN ErrorHandler(Pending(k), CHOOSE m \in ErrorMessages : TRUE).value[1]
         ELSE TimeoutHandler(Pending(k)).value[1]

\* an outcome or a rule result without the text of its error message
NoText(r) == [r EXCEPT !.error = IF IsSome(@) THEN Some(<<"<message>">>) ELSE None]

\* a tcping result without the text of its error messages
Structured(r) == [r EXCEPT !.results = [k \in DOMAIN r.results |-> NoText(r.results[k])]]

RECURSIVE OpenPortsOfOtherKind(_)

\* openPorts of the scanner after the first n calls of the other run
OpenPortsOfOtherKind(n) ==
    IF n = 0 THEN <<>>
    ELSE OpenPortsAfter(OpenPortsOfOtherKind(n - 1), probes[n].port, OtherKind(n))

\* C29: a timed-out probe is classified exactly like a probe that ended with
\* a connect error: the run in which every failed probe fails the other way
\* has the same structured results (successfulAttempts, success,
\* statistics, actual and passed per rule, openPorts); the two runs differ
\* only in the text of the error messages.
C29_TimeoutClassifiedAsError ==
    /\ \A k \in DOMAIN probes :
           (probes[k].promise = "resolved" /\ ~probes[k].value[1].success) =>
               /\ NoText(probes[k].value[1]) = NoText(OtherKind(k))
               /\ probes[k].value[1].error # OtherKind(k).error
               /\ probes[k].timer = "fired" <=>
                      probes[k].value[1].error = Some(TimeoutMessage(probes[k].timeout))
    /\ TcpingReturned =>
           Structured(result[1]) =
               Structured(TcpingResult(args.host, args.port, TcpingCount,
                                       [k \in DOMAIN probes |-> OtherKind(k)]))
    /\ (tool = "validate_firewall_rule" /\ Iterable(args.rules)) =>
           \A k \in DOMAIN results :
               NoText(results[k]) = NoText(RuleResult(args.rules[k], OtherKind(k)))
    /\ tool = "network_scan" => openPorts = OpenPortsOfOtherKind(Consumed)

\* a tcping call has returned after one of its probes timed out and another
\* one ended with a connect error
C29_Witness ==
    /\ TcpingReturned
    /\ \E k \in DOMAIN probes : probes[k].timer = "fired"
    /\ \E k \in DOMAIN probes :
           probes[k].timer = "cleared" /\ ~probes[k].value[1].success

\* the outcomes delivered to the running invocation, in call order
Outcomes == [k \in DOMAIN probes |-> probes[k].value[1]]

RECURSIVE RuleBlocksOver(_), PortLinesOver(_), OpenPortsOver(_)

\* the blocks of the first n rules for these outcomes
RuleBlocksOver(n) ==
    IF n = 0 THEN <<>> ELSE RuleBlocksOver(n - 1) \o RuleBlock(args.rules[n], Outcomes[n])

\* the port lines of the first n ports for these outcomes
PortLinesOver(n) ==
    IF n = 0 THEN <<>> ELSE OutputAfter(PortLinesOver(n - 1), probes[n].port, Outcomes[n])

\* openPorts after the first n ports for these outcomes
OpenPortsOver(n) ==
    IF n = 0 THEN <<>> ELSE OpenPortsAfter(OpenPortsOver(n - 1), probes[n].port, Outcomes[n])

\* the report the running invocation's handler writes, on its own, for the
\* outcomes of its calls
ReportAlone ==
    CASE tool = "tcping" ->
             TcpingReport(TcpingResult(args.host, args.port, TcpingCount, Outcomes))
      [] tool = "validate_firewall_rule" ->
             FirewallHeader \o RuleBlocksOver(Len(probes))
                 \o << OverallResult([k \in DOMAIN probes |->
                                          RuleResult(args.rules[k], Outcomes[k])]) >>
      [] tool = "network_scan" ->
             ScanHeader(args) \o PortLinesOver(Len(probes))
                 \o ScanSummary(OpenPortsOver(Len(probes)))

\* what the running invocation returns on its own for the outcomes of its
\* calls: the error of the call that was refused, or else the report
ResponseAlone ==
    IF \E k \in DOMAIN probes : probes[k].promise = "rejected"
    THEN ErrorResult(Last.reason[1])
    ELSE TextResult(ReportAlone)

\* the running invocation has made the calls of its request and of no
\* other, and has returned what it returns on its own for their outcomes
AsIfAlone ==
    Done => (Targets = Issued /\ response = Some(ResponseAlone))

\* A step either hands over to the other invocation, and then each one's
\* variables are what that invocation left, or it is a step of the running
\* invocation, which leaves the other one's variables alone and changes a
\* tcpConnect call already made only by one of that call's callbacks.
Isolated ==
    IF parked'.id # parked.id
    THEN parked'.locals = Locals /\ Locals' = parked.locals
    ELSE /\ parked' = parked
         /\ \A k \in DOMAIN probes :
                /\ k \in DOMAIN probes'
                /\ probes'[k] # probes[k] =>
                       /\ probes'[k] \in {TimeoutHandler(probes[k]), ConnectHandler(probes[k])}
                                         \cup {ErrorHandler(probes[k], m) : m \in ErrorMessages}
                       /\ \A j \in DOMAIN probes \ {k} : probes'[j] = probes[j]

\* C28: tool invocations share no mutable state: when two invocations (any
\* mix of tcping, firewall evaluation and scan) are interleaved at their
\* suspension points, each returns exactly the result it would return if
\* run alone against the same probe outcomes, and each probe's socket and
\* timer are touched only by that probe's own callbacks.
C28_InvocationsShareNothing == [](AsIfAlone) /\ [][Isolated]_vars

\* a tcping and a scan have both returned, each having made calls while the
\* other one had calls behind it and calls still to make
C28_Witness ==
    /\ Done
    /\ tool = "tcping"
    /\ parked.locals.pc = "done"
    /\ parked.locals.tool = "network_scan"
    /\ Len(probes) = 2
    /\ Len(parked.locals.probes) = 2
    /\ probes[1].startTime < parked.locals.probes[2].startTime
    /\ parked.locals.probes[1].startTime < probes[2].startTime
    /\ parked.locals.openPorts # <<>>

\* C31: when a tcpConnect call ends, its timeout timer is no longer armed:
\* no timer of a finished call is pending, so none can fire later, destroy
\* the socket or deliver an outcome for a call that already ended.
C31_NoTimerOutlivesItsProbe ==
    \A k \in DOMAIN probes : Settled(probes[k]) => probes[k].timer # "armed"

\* the original handleTcping, taken to where the refactored one is
Monolithic ==
    MonolithicHandleTcping(args, results, waits - (IF pc = "sleep" THEN 1 ELSE 0),
                           IsSome(thrown))

\* C32: the refactored tcping tool (handleTcping calling tcping) is
\* observationally equivalent to the original handleTcping: for every
\* options value and every sequence of probe outcomes both issue the same
\* probes and waits and produce the same report text, the 'Response Times'
\* line included, which one prints if some response time was collected and
\* the other if averageTime is truthy.
C32_RefactoredEqualsMonolithic ==
    tool = "tcping" =>
        /\ Monolithic.pc = pc
        /\ Monolithic.calls = Len(probes)
        /\ \A k \in DOMAIN probes : Targets[k] = Monolithic.target
        /\ Monolithic.waits = waits
        /\ pc = "sleep" => sleep.delay = Monolithic.delay
        /\ Monolithic.thrown = thrown
        /\ Monolithic.output = output

\* tcping has returned with a successful attempt but without statistics:
\* every connection was measured at 0 ms, so no response time was
\* collected and averageTime is undefined
C32_Witness ==
    /\ TcpingReturned
    /\ result[1].success
    /\ result[1].averageTime = None
    /\ output = MonolithicReport(args.host, args.port, TcpingCount, results)

\* the lines of the report that give the success rate
RateLines == {p \in DOMAIN output : output[p] # <<>> /\ output[p][1] = "  Success Rate: "}

\* the percentage printed in such a line, between "(" and "%)"
Percentage(p) == output[p][6]

\* C33: the success-rate percentage printed in tcping's report,
\* round(successfulAttempts / attempts * 100), is a well-defined integer
\* between 0 and 100 for every result tcping can return, results with
\* attempts = 0 included.
C33_PercentageWellDefined ==
    TcpingReturned =>
        /\ Cardinality(RateLines) = 1
        /\ \A p \in RateLines : Percentage(p) \in {ToString(n) : n \in 0..100}

====
